---------------------------- MODULE Spec2Model ----------------------------
(***************************************************************************)
(* Vendor-bill field extraction of NodeOCR (src/invoice_reader.js, first   *)
(* revision in the file, lines 1-207): the text of a converted PDF is      *)
(* normalised into two views, header fields and totals are read with       *)
(* regular expressions, the items and expenses tables are cut out of the   *)
(* raw view and parsed row by row, and two fallback rules reconcile the    *)
(* rows with the totals.                                                   *)
(*                                                                         *)
(* Texts are TLA+ strings and every regular expression of the source is    *)
(* evaluated character by character with the matching order of the         *)
(* JavaScript engine (leftmost start, greedy/lazy preference,              *)
(* backtracking where it can change the result).  A position is an index   *)
(* 1..Len(s)+1; a matcher returns the position after the match, or 0.      *)
(*                                                                         *)
(* Values: an optional value is Null (<<>>) or <<v>>.  A number is a       *)
(* record [m, e] standing for m / 10^e with no trailing fractional zero,   *)
(* so equal numbers are equal records; NaN is its own record.              *)
(***************************************************************************)
EXTENDS Integers, Sequences, FiniteSets, TLC

VARIABLES
    mode,        \* which entry point runs: "bill", "date", "php"
    pc,          \* position inside extractInvoiceData / the pure call
    pdfText,     \* data.text as returned by pdf-parse
    rawText,     \* line-preserving view
    flatText,    \* whitespace-collapsed view
    header,      \* docNumber, billDate, dueDate, vendorName, ...
    totals,      \* taxTotal, amountTotal, currency
    itemsBlock,  \* itemsBlockMatch: Null or <<block>>
    itemRows,    \* the rows the items pattern is applied to
    items,       \* parsed item lines
    expBlock,    \* expBlockMatch: Null or <<block>>
    expRows,     \* the rows the expenses pattern is applied to
    expenses,    \* parsed (and synthesized) expense lines
    result,      \* the returned record, Null until the return
    arg,         \* argument of the pure call (normalizeDate / parsePhp)
    ret          \* its return value

vars == <<mode, pc, pdfText, rawText, flatText, header, totals, itemsBlock,
          itemRows, items, expBlock, expRows, expenses, result, arg, ret>>

-----------------------------------------------------------------------------
(* Bounds of the checked instances                                         *)

MaxSegs == 3
MaxField == 3
MaxBody == 4

\* figures after the name of a generated row
MaxTokens == 5

-----------------------------------------------------------------------------
(* Optional values, numbers                                                *)

Null == <<>>

Some(v) == <<v>>

Val(o) == o[1]

NaN == [kind |-> "nan", m |-> 0, e |-> 0]

\* the value Number gives a numeral too large for a double
Infinity == [kind |-> "inf", m |-> 0, e |-> 0]

RECURSIVE Normalise(_, _)
Normalise(m, e) ==
    IF e > 0 /\ m % 10 = 0 THEN Normalise(m \div 10, e - 1)
    ELSE [kind |-> "num", m |-> m, e |-> e]

Zero == Normalise(0, 0)

\* Number.isFinite: false for NaN and Infinity
IsFinite(x) == x.kind = "num"

-----------------------------------------------------------------------------
(* Characters and strings                                                  *)

At(s, i) == SubSeq(s, i, i)

IsDigit(c) == c \in {"0", "1", "2", "3", "4", "5", "6", "7", "8", "9"}

\* \s of the regular expressions and the white space String.trim removes
IsSpace(c) == c \in {" ", "\n", "\t", "\r", "\f"}

\* . of the regular expressions (no flag s): anything but a line terminator
IsDot(c) == c \notin {"\n", "\r"}

\* [\d,]
IsDigitOrComma(c) == IsDigit(c) \/ c = ","

\* [0-9/.\-]
IsDateChar(c) == IsDigit(c) \/ c \in {"/", ".", "-"}

\* [\/\-\.]
IsDateSep(c) == c \in {"/", "-", "."}

DigitVal(c) ==
    CASE c = "0" -> 0 [] c = "1" -> 1 [] c = "2" -> 2 [] c = "3" -> 3
      [] c = "4" -> 4 [] c = "5" -> 5 [] c = "6" -> 6 [] c = "7" -> 7
      [] c = "8" -> 8 [] c = "9" -> 9

\* case folding of the flag i: the lower-case letter of each upper-case one
FoldMap ==
    ("A" :> "a") @@ ("B" :> "b") @@ ("C" :> "c") @@ ("D" :> "d") @@ ("E" :> "e") @@
    ("F" :> "f") @@ ("G" :> "g") @@ ("H" :> "h") @@ ("I" :> "i") @@ ("J" :> "j") @@
    ("K" :> "k") @@ ("L" :> "l") @@ ("M" :> "m") @@ ("N" :> "n") @@ ("O" :> "o") @@
    ("P" :> "p") @@ ("Q" :> "q") @@ ("R" :> "r") @@ ("S" :> "s") @@ ("T" :> "t") @@
    ("U" :> "u") @@ ("V" :> "v") @@ ("W" :> "w") @@ ("X" :> "x") @@ ("Y" :> "y") @@
    ("Z" :> "z")

Fold(c) == IF c \in DOMAIN FoldMap THEN FoldMap[c] ELSE c

Min(S) == CHOOSE x \in S : \A y \in S : x <= y

Max(S) == CHOOSE x \in S : \A y \in S : x >= y

RECURSIVE StrToNat(_)
StrToNat(s) ==
    IF s = "" THEN 0
    ELSE 10 * StrToNat(SubSeq(s, 1, Len(s) - 1)) + DigitVal(At(s, Len(s)))

AllDigits(s) == \A i \in 1..Len(s) : IsDigit(At(s, i))

\* String.prototype.trim
RECURSIVE TrimLeft(_)
TrimLeft(s) == IF s # "" /\ IsSpace(Head(s)) THEN TrimLeft(Tail(s)) ELSE s

RECURSIVE TrimRight(_)
TrimRight(s) ==
    IF s # "" /\ IsSpace(At(s, Len(s)))
    THEN TrimRight(SubSeq(s, 1, Len(s) - 1))
    ELSE s

Trim(s) == TrimRight(TrimLeft(s))

\* s.replace(/<c>/g, '') for a single character c
RECURSIVE RemoveChar(_, _)
RemoveChar(s, c) ==
    LET S == {i \in 1..Len(s) : At(s, i) = c}
    IN  IF S = {} THEN s
        ELSE SubSeq(s, 1, Min(S) - 1) \o RemoveChar(SubSeq(s, Min(S) + 1, Len(s)), c)

\* s.padStart(2, '0')
PadStart2(s) == IF Len(s) < 2 THEN "0" \o s ELSE s

-----------------------------------------------------------------------------
(* Regular-expression pieces                                               *)

\* \s* (greedy): the first position from i that holds no white space
RECURSIVE SkipWs(_, _)
SkipWs(s, i) == IF i <= Len(s) /\ IsSpace(At(s, i)) THEN SkipWs(s, i + 1) ELSE i

\* \s* after a piece that may have failed
WsStar(s, i) == IF i = 0 THEN 0 ELSE SkipWs(s, i)

\* \s+
Ws1(s, i) == IF i >= 1 /\ i <= Len(s) /\ IsSpace(At(s, i)) THEN SkipWs(s, i) ELSE 0

\* \d* (greedy)
SkipDigits(s, i) ==
    IF i > Len(s) THEN i
    ELSE Min({j \in i..(Len(s) + 1) : j > Len(s) \/ ~IsDigit(At(s, j))})

\* \d+
Digits1(s, i) ==
    IF i >= 1 /\ i <= Len(s) /\ IsDigit(At(s, i)) THEN SkipDigits(s, i) ELSE 0

\* [\d,]* (greedy)
SkipDigitComma(s, i) ==
    IF i > Len(s) THEN i
    ELSE Min({j \in i..(Len(s) + 1) : j > Len(s) \/ ~IsDigitOrComma(At(s, j))})

\* [0-9/.\-]* (greedy)
SkipDateChars(s, i) ==
    IF i > Len(s) THEN i
    ELSE Min({j \in i..(Len(s) + 1) : j > Len(s) \/ ~IsDateChar(At(s, j))})

\* \S* (greedy)
SkipNonSpace(s, i) ==
    IF i > Len(s) THEN i
    ELSE Min({j \in i..(Len(s) + 1) : j > Len(s) \/ IsSpace(At(s, j))})

\* a literal, case-sensitive
Lit(s, i, lit) ==
    IF i >= 1 /\ i + Len(lit) - 1 <= Len(s) /\ SubSeq(s, i, i + Len(lit) - 1) = lit
    THEN i + Len(lit)
    ELSE 0

\* a literal under the flag i
LitCI(s, i, lit) ==
    IF i >= 1 /\ i + Len(lit) - 1 <= Len(s)
       /\ \A k \in 1..Len(lit) : Fold(At(s, i + k - 1)) = Fold(At(lit, k))
    THEN i + Len(lit)
    ELSE 0

\* ([\d,]+\.\d+|0\.00): the position after the amount, or 0.  The second
\* alternative matches nothing the first does not match at least as long.
AmountAt(s, i) ==
    LET a == IF i = 0 THEN 0 ELSE SkipDigitComma(s, i)
        b == IF a > i THEN Lit(s, a, ".") ELSE 0
        first == Digits1(s, b)
    IN  IF first # 0 THEN first ELSE Lit(s, i, "0.00")

\* [k, k-1, ..., lo]: the positions a greedy \s* gives back, longest first
Desc(hi, lo) == [k \in 1..(hi - lo + 1) |-> hi - k + 1]

\* every character of s[j..e-1] is matched by .
DotRun(s, j, e) == \A k \in j..(e - 1) : IsDot(At(s, k))

-----------------------------------------------------------------------------
(* Utilities of the source                                                 *)

\* the number of digits of the integer part ip from its first non-zero digit
SigDigits(ip) ==
    LET S == {i \in 1..Len(ip) : At(ip, i) # "0"}
    IN  IF S = {} THEN 0 ELSE Len(ip) - Min(S) + 1

\* an integer part of this many significant digits is at least 10^309 and
\* exceeds the largest double (about 1.8 * 10^308)
InfinityDigits == 310

\* Number(str) for strings over digits, '.', ',', letters and white space
\* (no sign, exponent, radix prefix or "Infinity" can be spelled with them):
\* the empty or blank string is 0, a decimal numeral is its value, Infinity
\* when it is too large for a double, and anything else is NaN.
Number(str) ==
    LET t == Trim(str)
        a == SkipDigits(t, 1)
        hasDot == a <= Len(t) /\ At(t, a) = "."
        b == IF hasDot THEN SkipDigits(t, a + 1) ELSE a
        ip == SubSeq(t, 1, a - 1)
        fp == IF hasDot THEN SubSeq(t, a + 1, b - 1) ELSE ""
    IN  IF t = "" THEN Zero
        ELSE IF b = Len(t) + 1 /\ (ip # "" \/ fp # "")
        THEN IF SigDigits(ip) >= InfinityDigits THEN Infinity
             ELSE Normalise(StrToNat(ip \o fp), Len(fp))
        ELSE NaN

\* parsePhp without the removal of the grouping commas
parsePhp_KeepCommas(numStr) ==
    IF numStr = Null \/ Val(numStr) = "" THEN Null
    ELSE LET n == Number(Val(numStr))
         IN  IF IsFinite(n) THEN Some(n) ELSE Null

\* parsePhp(numStr); numStr is Null or <<string>>
parsePhp(numStr) ==
    IF numStr = Null \/ Val(numStr) = "" THEN Null
    ELSE LET n == Number(RemoveChar(Val(numStr), ","))
         IN  IF IsFinite(n) THEN Some(n) ELSE Null

\* normalizeDate without padStart: month and day are copied as written
normalizeDate_NoPad(d) ==
    IF d = Null \/ Val(d) = "" THEN Null
    ELSE LET s == Val(d)
             a == SkipDigits(s, 1)
             b == IF a - 1 \in 1..2 /\ a <= Len(s) /\ IsDateSep(At(s, a))
                  THEN SkipDigits(s, a + 1) ELSE 0
             c == IF b # 0 /\ b - (a + 1) \in 1..2 /\ b <= Len(s) /\ IsDateSep(At(s, b))
                  THEN SkipDigits(s, b + 1) ELSE 0
             ok == c # 0 /\ c - (b + 1) = 4 /\ c = Len(s) + 1
         IN  IF ~ok THEN d
             ELSE Some(SubSeq(s, b + 1, c - 1) \o "-"
                       \o SubSeq(s, 1, a - 1) \o "-"
                       \o SubSeq(s, a + 1, b - 1))

\* normalizeDate(d); d is Null or <<string>>
normalizeDate(d) ==
    IF d = Null \/ Val(d) = "" THEN Null
    ELSE LET s == Val(d)
             a == SkipDigits(s, 1)
             b == IF a - 1 \in 1..2 /\ a <= Len(s) /\ IsDateSep(At(s, a))
                  THEN SkipDigits(s, a + 1) ELSE 0
             c == IF b # 0 /\ b - (a + 1) \in 1..2 /\ b <= Len(s) /\ IsDateSep(At(s, b))
                  THEN SkipDigits(s, b + 1) ELSE 0
             ok == c # 0 /\ c - (b + 1) = 4 /\ c = Len(s) + 1
         IN  IF ~ok THEN d
             ELSE Some(SubSeq(s, b + 1, c - 1) \o "-"
                       \o PadStart2(SubSeq(s, 1, a - 1)) \o "-"
                       \o PadStart2(SubSeq(s, a + 1, b - 1)))

-----------------------------------------------------------------------------
(* Header patterns of extractVendorBillData.  Each XxxAt(s, i) is the      *)
(* match attempt at start position i: Null, or <<from, to>> of group 1.     *)

\* m ? m[1].trim() : null
Capture(s, m) == IF m = Null THEN Null ELSE Some(Trim(SubSeq(s, m[1], m[2] - 1)))

\* /#\s*(VENDBILL\d+)/i
DocNumber1At(s, i) ==
    LET a == WsStar(s, Lit(s, i, "#"))
        c == Digits1(s, LitCI(s, a, "VENDBILL"))
    IN  IF c = 0 THEN Null ELSE <<a, c>>

\* /Vendor Bill\s*#\s*(\S+)/i
DocNumber2At(s, i) ==
    LET a == WsStar(s, LitCI(s, i, "Vendor Bill"))
        c == WsStar(s, Lit(s, a, "#"))
        d == IF c = 0 THEN 0 ELSE SkipNonSpace(s, c)
    IN  IF c = 0 \/ d = c THEN Null ELSE <<c, d>>

\* /<Label>\s*Date\s*[:\-]?\s*([0-9/.\-]+)/i for Label = Bill, Due.  The
\* optional [:\-] is taken first; when the rest then fails it is left out.
LabelDateAt(s, i, label) ==
    LET a == WsStar(s, LitCI(s, i, label))
        c == WsStar(s, LitCI(s, a, "Date"))
        opt == c # 0 /\ c <= Len(s) /\ At(s, c) \in {":", "-"}
        d == IF opt THEN SkipWs(s, c + 1) ELSE 0
        e == IF opt THEN SkipDateChars(s, d) ELSE 0
        f == IF c = 0 THEN 0 ELSE SkipDateChars(s, c)
    IN  IF c = 0 THEN Null
        ELSE IF opt /\ e > d THEN <<d, e>>
        ELSE IF f > c THEN <<c, f>>
        ELSE Null

\* /VENDBILL\d+\s*([0-9/.\-]+)/i.  \d+ is greedy; when nothing of the date
\* class follows, it gives back its last digit, which the group then takes.
BillDate2At(s, i) ==
    LET a == LitCI(s, i, "VENDBILL")
        d == Digits1(s, a)
        w == WsStar(s, d)
        e == IF w = 0 THEN 0 ELSE SkipDateChars(s, w)
    IN  IF d = 0 THEN Null
        ELSE IF e > w THEN <<w, e>>
        ELSE IF d - a >= 2 THEN <<d - 1, SkipDateChars(s, d - 1)>>
        ELSE Null

\* the lookaheads that end the lazy groups
LookVendor(s, e) ==
    \/ LitCI(s, Ws1(s, e), "Subsidiary:") # 0
    \/ LitCI(s, WsStar(s, LitCI(s, Ws1(s, e), "Due")), "Date:") # 0
    \/ e = Len(s) + 1

LookSubsidiary(s, e) ==
    \/ LitCI(s, WsStar(s, LitCI(s, Ws1(s, e), "Due")), "Date:") # 0
    \/ LitCI(s, Ws1(s, e), "Terms:") # 0
    \/ e = Len(s) + 1

LookTerms(s, e) ==
    \/ (Ws1(s, e) # 0 /\ Ws1(s, e) <= Len(s) /\ IsDateChar(At(s, Ws1(s, e))))
    \/ e = Len(s) + 1

Look(s, e, kind) ==
    CASE kind = "vendor" -> LookVendor(s, e)
      [] kind = "subsidiary" -> LookSubsidiary(s, e)
      [] kind = "terms" -> LookTerms(s, e)

\* (.+?)(?=...) from start j: the shortest non-empty run of . characters
\* after which the lookahead holds; 0 when there is none
LazyEnd(s, j, kind) ==
    LET E == {e \in (j + 1)..(Len(s) + 1) : DotRun(s, j, e) /\ Look(s, e, kind)}
    IN  IF E = {} THEN 0 ELSE Min(E)

\* the first start of js (in the engine's order of preference) from which
\* the lazy group matches
RECURSIVE LazyCapture(_, _, _)
LazyCapture(s, js, kind) ==
    IF js = <<>> THEN Null
    ELSE IF LazyEnd(s, Head(js), kind) # 0
    THEN <<Head(js), LazyEnd(s, Head(js), kind)>>
    ELSE LazyCapture(s, Tail(js), kind)

\* /Vendor:\s*(.+?)(?=\s+Subsidiary:|\s+Due\s*Date:|$)/i
VendorAt(s, i) ==
    LET a == LitCI(s, i, "Vendor:")
    IN  IF a = 0 THEN Null ELSE LazyCapture(s, Desc(SkipWs(s, a), a), "vendor")

\* /Subsidiary:\s*(.+?)(?=\s+Due\s*Date:|\s+Terms:|$)/i
SubsidiaryAt(s, i) ==
    LET a == LitCI(s, i, "Subsidiary:")
    IN  IF a = 0 THEN Null ELSE LazyCapture(s, Desc(SkipWs(s, a), a), "subsidiary")

\* /Terms\s*[:\-]?\s*(.+?)(?=\s+[0-9/.\-]|$)/i
TermsAt(s, i) ==
    LET a == LitCI(s, i, "Terms")
        c == WsStar(s, a)
        opt == c # 0 /\ c <= Len(s) /\ At(s, c) \in {":", "-"}
        withOpt == IF opt THEN Desc(SkipWs(s, c + 1), c + 1) ELSE <<>>
    IN  IF a = 0 THEN Null ELSE LazyCapture(s, withOpt \o Desc(c, a), "terms")

\* String.prototype.match without the flag g: the leftmost start that matches
DocNumber1(s) ==
    LET S == {i \in 1..Len(s) : DocNumber1At(s, i) # Null}
    IN  IF S = {} THEN Null ELSE DocNumber1At(s, Min(S))

DocNumber2(s) ==
    LET S == {i \in 1..Len(s) : DocNumber2At(s, i) # Null}
    IN  IF S = {} THEN Null ELSE DocNumber2At(s, Min(S))

LabelDate(s, label) ==
    LET S == {i \in 1..Len(s) : LabelDateAt(s, i, label) # Null}
    IN  IF S = {} THEN Null ELSE LabelDateAt(s, Min(S), label)

BillDate2(s) ==
    LET S == {i \in 1..Len(s) : BillDate2At(s, i) # Null}
    IN  IF S = {} THEN Null ELSE BillDate2At(s, Min(S))

Vendor(s) ==
    LET S == {i \in 1..Len(s) : VendorAt(s, i) # Null}
    IN  IF S = {} THEN Null ELSE VendorAt(s, Min(S))

Subsidiary(s) ==
    LET S == {i \in 1..Len(s) : SubsidiaryAt(s, i) # Null}
    IN  IF S = {} THEN Null ELSE SubsidiaryAt(s, Min(S))

Terms(s) ==
    LET S == {i \in 1..Len(s) : TermsAt(s, i) # Null}
    IN  IF S = {} THEN Null ELSE TermsAt(s, Min(S))

\* a ?? b in place of a || b: the empty string is kept
OrElse_KeepEmpty(a, b) == IF a = Null THEN b ELSE a

\* a || b on optional strings: the empty string is falsy
OrElse(a, b) == IF a = Null \/ Val(a) = "" THEN b ELSE a

\* lines 44-58 and 66-75: the header object
HeaderOf(raw, flat) ==
    LET docNumber == OrElse(Capture(flat, DocNumber1(flat)), Capture(flat, DocNumber2(flat)))
        billDateRaw == OrElse(Capture(flat, LabelDate(flat, "Bill")),
                              Capture(flat, BillDate2(flat)))
        vendorName == Capture(raw, Vendor(raw))
        subsidiaryName == Capture(raw, Subsidiary(raw))
        dueDateRaw == Capture(flat, LabelDate(flat, "Due"))
        termsName == Capture(flat, Terms(flat))
    IN  [docNumber |-> OrElse(docNumber, Null),
         billDate |-> normalizeDate(billDateRaw),
         dueDate |-> normalizeDate(dueDateRaw),
         vendorName |-> OrElse(vendorName, Null),
         subsidiaryName |-> OrElse(subsidiaryName, Null),
         termsName |-> OrElse(termsName, Null)]

-----------------------------------------------------------------------------
(* Totals: parseVendorBillTotals                                           *)

\* /<Label>\s*PHP\s*([\d,]+\.\d+|0\.00)/i for Label = Tax, Amount
TotalAt(s, i, label) ==
    LET a == WsStar(s, LitCI(s, i, label))
        c == WsStar(s, LitCI(s, a, "PHP"))
        d == AmountAt(s, c)
    IN  IF d = 0 THEN Null ELSE <<c, d>>

TotalMatch(s, label) ==
    LET S == {i \in 1..Len(s) : TotalAt(s, i, label) # Null}
    IN  IF S = {} THEN Null ELSE TotalAt(s, Min(S), label)

\* taxMatch ? parsePhp(taxMatch[1]) : null
TotalOf(s, label) ==
    LET m == TotalMatch(s, label)
    IN  IF m = Null THEN Null ELSE parsePhp(Some(SubSeq(s, m[1], m[2] - 1)))

parseVendorBillTotals(raw) ==
    [taxTotal |-> TotalOf(raw, "Tax"),
     amountTotal |-> TotalOf(raw, "Amount"),
     currency |-> "PHP"]

-----------------------------------------------------------------------------
(* Table blocks of parseVendorBillLines                                    *)

ItemsHeaderWords == <<"Item", "Quantity", "Tax", "Rate", "Tax", "Amt", "Rate", "Amount">>

ExpensesHeaderWords == <<"Account", "Tax", "Rate", "Tax", "Amt", "Amount">>

\* w1\s+w2\s+...\s+wn under the flag i, from position i
RECURSIVE PhraseAt(_, _, _)
PhraseAt(s, i, words) ==
    LET a == LitCI(s, i, Head(words))
    IN  IF a = 0 \/ Len(words) = 1 THEN a
        ELSE PhraseAt(s, Ws1(s, a), Tail(words))

\* Tax\s*PHP under the flag i
TaxPhpAt(s, j) == LitCI(s, WsStar(s, LitCI(s, j, "Tax")), "PHP")

\* the positions from h at which the terminator Tax\s*PHP matches
Terminators(s, h) == {j \in h..Len(s) : TaxPhpAt(s, j) # 0}

\* /<header>([\s\S]*?)Tax\s*PHP/i: group 1 of the leftmost match, the text
\* from the end of the header to the first terminator after it
BlockToTerminator(s, words) ==
    LET S == {i \in 1..Len(s) :
                 PhraseAt(s, i, words) # 0 /\ Terminators(s, PhraseAt(s, i, words)) # {}}
        h == PhraseAt(s, Min(S), words)
    IN  IF S = {} THEN Null ELSE Some(SubSeq(s, h, Min(Terminators(s, h)) - 1))

\* /<header>([\s\S]*)$/i: group 1 of the leftmost match, the text from the
\* end of the first header to the end
BlockToEnd(s, words) ==
    LET S == {i \in 1..Len(s) : PhraseAt(s, i, words) # 0}
    IN  IF S = {} THEN Null ELSE Some(SubSeq(s, PhraseAt(s, Min(S), words), Len(s)))

\* lines 90-92
itemsBlockMatch(raw) == BlockToTerminator(raw, ItemsHeaderWords)

\* lines 125-127
expBlockMatch(raw) ==
    IF BlockToTerminator(raw, ExpensesHeaderWords) # Null
    THEN BlockToTerminator(raw, ExpensesHeaderWords)
    ELSE BlockToEnd(raw, ExpensesHeaderWords)

\* s.split('\n')
RECURSIVE Split(_)
Split(s) ==
    LET S == {i \in 1..Len(s) : At(s, i) = "\n"}
    IN  IF S = {} THEN <<s>>
        ELSE <<SubSeq(s, 1, Min(S) - 1)>> \o Split(SubSeq(s, Min(S) + 1, Len(s)))

\* .map((r) => r.trim()).filter((r) => r)
RECURSIVE TrimmedNonEmpty(_)
TrimmedNonEmpty(rs) ==
    IF rs = <<>> THEN <<>>
    ELSE IF Trim(Head(rs)) = "" THEN TrimmedNonEmpty(Tail(rs))
    ELSE <<Trim(Head(rs))>> \o TrimmedNonEmpty(Tail(rs))

\* lines 97-100 and 132-135
RowsOf(block) == TrimmedNonEmpty(Split(block))

-----------------------------------------------------------------------------
(* Row patterns                                                            *)

\* \s+(\d+)%\s+PHP(amt)\s+PHP(amt)$ from position i: Null or the groups
\* <<taxRate, taxAmt, amount>>, the tail of both row patterns
ExpenseTailAt(s, i) ==
    LET r0 == Ws1(s, i)
        r1 == Digits1(s, r0)
        a0 == Lit(s, Ws1(s, Lit(s, r1, "%")), "PHP")
        a1 == AmountAt(s, a0)
        b0 == Lit(s, Ws1(s, a1), "PHP")
        b1 == AmountAt(s, b0)
    IN  IF b1 = 0 \/ b1 # Len(s) + 1 THEN Null
        ELSE <<SubSeq(s, r0, r1 - 1), SubSeq(s, a0, a1 - 1), SubSeq(s, b0, b1 - 1)>>

\* \s+(\d+(?:\.\d+)?)\s+(\d+)%\s+PHP(amt)\s+PHP(amt)\s+PHP(amt)$ from i:
\* Null or <<qty, taxRate, taxAmt, rate, amount>>
ItemTailAt(s, i) ==
    LET q0 == Ws1(s, i)
        q1 == Digits1(s, q0)
        q2 == IF Digits1(s, Lit(s, q1, ".")) # 0 THEN Digits1(s, Lit(s, q1, ".")) ELSE q1
        r0 == Ws1(s, q2)
        r1 == Digits1(s, r0)
        a0 == Lit(s, Ws1(s, Lit(s, r1, "%")), "PHP")
        a1 == AmountAt(s, a0)
    IN  IF a1 = 0 THEN Null
        ELSE LET b0 == Lit(s, Ws1(s, a1), "PHP")
                 b1 == AmountAt(s, b0)
                 c0 == Lit(s, Ws1(s, b1), "PHP")
                 c1 == AmountAt(s, c0)
             IN  IF c1 = 0 \/ c1 # Len(s) + 1 THEN Null
                 ELSE <<SubSeq(s, q0, q2 - 1), SubSeq(s, r0, r1 - 1),
                        SubSeq(s, a0, a1 - 1), SubSeq(s, b0, b1 - 1),
                        SubSeq(s, c0, c1 - 1)>>

\* row.match(/^(.+?)\s+...$/) of the items table (lines 105-107): Null or
\* <<itemName, qty, taxRate, taxAmt, rate, amount>>; the lazy name is the
\* shortest prefix after which the tail matches
ItemRowMatch(row) ==
    LET K == {k \in 1..Len(row) : DotRun(row, 1, k + 1) /\ ItemTailAt(row, k + 1) # Null}
    IN  IF K = {} THEN Null
        ELSE <<SubSeq(row, 1, Min(K))>> \o ItemTailAt(row, Min(K) + 1)

\* a row that fails the pattern is not skipped: the whole row is taken as
\* the account name and the figures are guessed
ExpenseRowMatch_Guessed(row) ==
    LET K == {k \in 1..Len(row) : DotRun(row, 1, k + 1) /\ ExpenseTailAt(row, k + 1) # Null}
    IN  IF K = {} THEN <<row, "0", "0.00", "0.00">>
        ELSE <<SubSeq(row, 1, Min(K))>> \o ExpenseTailAt(row, Min(K) + 1)

\* \s+PHP(amt)\s+PHP(amt)$ from position i: the expense tail without its rate
TwoAmountsAt(s, i) ==
    LET a0 == Lit(s, Ws1(s, i), "PHP")
        a1 == AmountAt(s, a0)
        b0 == Lit(s, Ws1(s, a1), "PHP")
        b1 == AmountAt(s, b0)
    IN  IF b1 = 0 \/ b1 # Len(s) + 1 THEN Null
        ELSE <<"0", SubSeq(s, a0, a1 - 1), SubSeq(s, b0, b1 - 1)>>

\* the expenses pattern without the rate group: any row that ends in two
\* PHP amounts matches
ExpenseRowMatch_TrailingTwo(row) ==
    LET K == {k \in 1..Len(row) : DotRun(row, 1, k + 1) /\ TwoAmountsAt(row, k + 1) # Null}
    IN  IF K = {} THEN Null
        ELSE <<SubSeq(row, 1, Min(K))>> \o TwoAmountsAt(row, Min(K) + 1)

\* row.match(/^(.+?)\s+(\d+)%\s+PHP(..)\s+PHP(..)$/) (lines 140-142): Null or
\* <<accountName, taxRate, taxAmt, amount>>
ExpenseRowMatch(row) ==
    LET K == {k \in 1..Len(row) : DotRun(row, 1, k + 1) /\ ExpenseTailAt(row, k + 1) # Null}
    IN  IF K = {} THEN Null
        ELSE <<SubSeq(row, 1, Min(K))>> \o ExpenseTailAt(row, Min(K) + 1)

\* lines 112-119
ItemLine(m) ==
    [itemName |-> Trim(m[1]),
     quantity |-> Some(Number(m[2])),
     taxRatePercent |-> Some(Number(m[3])),
     taxAmount |-> parsePhp(Some(m[4])),
     rate |-> parsePhp(Some(m[5])),
     amount |-> parsePhp(Some(m[6]))]

\* lines 147-152
ExpenseLine(m) ==
    [accountName |-> Trim(m[1]),
     taxRatePercent |-> Some(Number(m[2])),
     taxAmount |-> parsePhp(Some(m[3])),
     amount |-> parsePhp(Some(m[4]))]

\* the loop of lines 102-120: rows that do not match are skipped
RECURSIVE ItemLines(_)
ItemLines(rows) ==
    IF rows = <<>> THEN <<>>
    ELSE IF ItemRowMatch(Head(rows)) = Null THEN ItemLines(Tail(rows))
    ELSE <<ItemLine(ItemRowMatch(Head(rows)))>> \o ItemLines(Tail(rows))

\* the loop of lines 137-153
RECURSIVE ExpenseLines(_)
ExpenseLines(rows) ==
    IF rows = <<>> THEN <<>>
    ELSE IF ExpenseRowMatch(Head(rows)) = Null THEN ExpenseLines(Tail(rows))
    ELSE <<ExpenseLine(ExpenseRowMatch(Head(rows)))>> \o ExpenseLines(Tail(rows))

-----------------------------------------------------------------------------
(* Text views: extractInvoiceData, lines 10-12                             *)

\* s.replace(/\s+/g, ' ')
RECURSIVE CollapseWs(_)
CollapseWs(s) ==
    LET S == {i \in 1..Len(s) : IsSpace(At(s, i))}
    IN  IF S = {} THEN s
        ELSE SubSeq(s, 1, Min(S) - 1) \o " "
             \o CollapseWs(SubSeq(s, SkipWs(s, Min(S)), Len(s)))

RawView(text) == RemoveChar(text, "\r")

FlatView(raw) == Trim(CollapseWs(raw))

-----------------------------------------------------------------------------
(* Fallbacks of parseVendorBillLines, lines 156-177                        *)

SentinelName == "AUTO-GENERATED FROM TOTALS"

\* FillFromTotals without the tests for an absent field
FillFromTotals_Overwrite(its, exps, tot) ==
    IF Len(its) = 0 /\ Len(exps) = 1
    THEN LET line == exps[1]
             amount == IF tot.amountTotal # Null THEN tot.amountTotal ELSE line.amount
             taxAmount == IF tot.taxTotal # Null THEN tot.taxTotal ELSE line.taxAmount
         IN  <<[line EXCEPT !.amount = amount, !.taxAmount = taxAmount]>>
    ELSE exps

\* lines 159-167: fills the only expense line from the totals
FillFromTotals(its, exps, tot) ==
    IF Len(its) = 0 /\ Len(exps) = 1
    THEN LET line == exps[1]
             amount == IF line.amount = Null /\ tot.amountTotal # Null
                       THEN tot.amountTotal ELSE line.amount
             taxAmount == IF line.taxAmount = Null /\ tot.taxTotal # Null
                          THEN tot.taxTotal ELSE line.taxAmount
         IN  <<[line EXCEPT !.amount = amount, !.taxAmount = taxAmount]>>
    ELSE exps

\* SynthesizeFromTotals without the test for parsed expense rows
SynthesizeFromTotals_Always(its, exps, tot) ==
    IF Len(its) = 0 /\ tot.amountTotal # Null
    THEN Append(exps, [accountName |-> SentinelName,
                       taxRatePercent |-> Null,
                       taxAmount |-> tot.taxTotal,
                       amount |-> tot.amountTotal])
    ELSE exps

\* SynthesizeFromTotals asking for both totals
SynthesizeFromTotals_NeedsTax(its, exps, tot) ==
    IF Len(its) = 0 /\ Len(exps) = 0 /\ tot.amountTotal # Null /\ tot.taxTotal # Null
    THEN Append(exps, [accountName |-> SentinelName,
                       taxRatePercent |-> Null,
                       taxAmount |-> tot.taxTotal,
                       amount |-> tot.amountTotal])
    ELSE exps

\* SynthesizeFromTotals that also fires beside a single parsed expense line
SynthesizeFromTotals_BesideOne(its, exps, tot) ==
    IF Len(its) = 0 /\ Len(exps) <= 1 /\ tot.amountTotal # Null
    THEN Append(exps, [accountName |-> SentinelName,
                       taxRatePercent |-> Null,
                       taxAmount |-> tot.taxTotal,
                       amount |-> tot.amountTotal])
    ELSE exps

\* lines 170-177: one synthetic expense line when nothing was parsed
SynthesizeFromTotals(its, exps, tot) ==
    IF Len(its) = 0 /\ Len(exps) = 0 /\ tot.amountTotal # Null
    THEN Append(exps, [accountName |-> SentinelName,
                       taxRatePercent |-> Null,
                       taxAmount |-> tot.taxTotal,
                       amount |-> tot.amountTotal])
    ELSE exps

-----------------------------------------------------------------------------
(* Inputs                                                                  *)

ItemsHeaderLine == "Item Quantity Tax Rate Tax Amt Rate Amount"

ExpensesHeaderLine == "Account Tax Rate Tax Amt Amount"

ItemRowLine == "WIDGET-1 2 12% PHP100.00 PHP500.00 PHP1,000.00"

ExpenseRowLine == "Repairs 0% PHP0.00 PHP5,000.00"

\* a description without figures: a row that lacks its amounts, or the
\* wrapped part of the row before it
DescriptionLine == "Repairs and Maintenance Cost"

\* a row of the document that spells the sentinel name itself
SentinelRowLine == "AUTO-GENERATED FROM TOTALS 0% PHP0.00 PHP5.00"

TotalsLines == "Tax PHP100.00\r\nAmount PHP1,000.00"

TaxOnlyLine == "Tax PHP100.00"

AmountOnlyLine == "Amount PHP1,000.00"

Nines10 == "9999999999"

Nines50 == Nines10 \o Nines10 \o Nines10 \o Nines10 \o Nines10

\* a numeral of 310 digits
Nines310 == Nines50 \o Nines50 \o Nines50 \o Nines50 \o Nines50 \o Nines50 \o Nines10

\* an item row whose quantity is too large for a double
HugeQuantityRowLine ==
    "WIDGET-2 " \o Nines310 \o " 12% PHP100.00 PHP500.00 PHP1,000.00"

\* an expense row whose amount is too large for a double
HugeAmountRowLine == "Repairs 0% PHP0.00 PHP" \o Nines310 \o ".00"

\* an item row with a rate above one hundred percent
HighRateRowLine == "WIDGET-3 1 150% PHP100.00 PHP500.00 PHP1,000.00"

\* a tax total of zero
ZeroTaxLine == "Tax PHP0.00"

\* the two table headers one after the other, and the two rows likewise, so
\* that rows lie in both blocks
BothHeadersLines == ItemsHeaderLine \o "\n" \o ExpensesHeaderLine

BothRowsLines == ItemRowLine \o "\n" \o ExpenseRowLine

\* the words of f, one space between them
RECURSIVE JoinWords(_)
JoinWords(f) ==
    IF Len(f) = 0 THEN ""
    ELSE IF Len(f) = 1 THEN f[1]
    ELSE f[1] \o " " \o JoinWords(Tail(f))

\* the figures a row is made of: a quantity, a rate and an amount
RowTokens == {"2", "12%", "PHP1.00"}

\* a name followed by every sequence of at most MaxTokens figures
TokenRows ==
    {JoinWords(<<"X">> \o f) : f \in UNION {[1..k -> RowTokens] : k \in 0..MaxTokens}}

\* a generated row under both headers, before the Tax PHP marker
OverlapTexts ==
    {BothHeadersLines \o "\n" \o r \o "\n" \o TaxOnlyLine : r \in TokenRows}

OverlapSegs ==
    {ItemsHeaderLine, ExpensesHeaderLine, BothHeadersLines, ItemRowLine,
     ExpenseRowLine, BothRowsLines, TaxOnlyLine, DescriptionLine}

FigureSegs ==
    {ItemsHeaderLine, ExpensesHeaderLine, ItemRowLine, ExpenseRowLine,
     HugeQuantityRowLine, HugeAmountRowLine, HighRateRowLine, TotalsLines,
     ZeroTaxLine}

TableSegs ==
    {ItemsHeaderLine, ExpensesHeaderLine, ItemRowLine, ExpenseRowLine,
     DescriptionLine, SentinelRowLine, TotalsLines, TaxOnlyLine, AmountOnlyLine}

HeaderSegs ==
    {"#VENDBILL196", "Vendor Bill # VB-7", "Bill Date: 3/27/2025",
     "Bill Date 2025-03-27", "Vendor: ACME Corp", "Vendor: ",
     "Subsidiary: Parent Co", "Due Date: 4.5.2025", "Terms: Net 30",
     TotalsLines}

\* the segments of f, one per line
RECURSIVE JoinLines(_)
JoinLines(f) ==
    IF Len(f) = 0 THEN ""
    ELSE IF Len(f) = 1 THEN f[1]
    ELSE f[1] \o "\n" \o JoinLines(Tail(f))

\* every string of at most n characters of the alphabet
RECURSIVE StringsUpTo(_, _)
StringsUpTo(alphabet, n) ==
    IF n = 0 THEN {""}
    ELSE {""} \cup {c \o t : c \in alphabet, t \in StringsUpTo(alphabet, n - 1)}

\* arguments of normalizeDate: month, separator, day, separator, year and
\* a tail, so that every part of the pattern is met and missed
DateArgs ==
    {mm \o s1 \o dd \o s2 \o yyyy \o tl :
        mm \in StringsUpTo({"1", "2"}, MaxField), s1 \in {"/", "-", ".", ":"},
        dd \in StringsUpTo({"0", "7"}, MaxField), s2 \in {"/", "-", ".", ":"},
        yyyy \in {"202", "2024", "20245"}, tl \in {"", " "}}
    \cup {"", "2024-01-07", "Jan 7"}

\* amount tokens: a prefix and a body over digits, comma and point
AmountArgs ==
    {pre \o body :
        pre \in {"", "PHP", "php", "P"},
        body \in StringsUpTo({"0", "5", ",", "."}, MaxBody)
                 \cup {"1,000.00", "19,392.90", " ", "5.00 "}}

TextsOf(segs) == {JoinLines(f) : f \in UNION {[1..k -> segs] : k \in 0..MaxSegs}}

-----------------------------------------------------------------------------
(* extractInvoiceData as a state machine                                   *)

Idle ==
    /\ rawText = "" /\ flatText = ""
    /\ header = Null /\ totals = Null
    /\ itemsBlock = Null /\ itemRows = <<>> /\ items = <<>>
    /\ expBlock = Null /\ expRows = <<>> /\ expenses = <<>>
    /\ result = Null /\ ret = Null

InitBill(texts) ==
    /\ mode = "bill" /\ pc = "start"
    /\ pdfText \in texts
    /\ arg = Null
    /\ Idle

Init == InitBill(TextsOf(TableSegs))

InitHeader == InitBill(TextsOf(HeaderSegs))

InitFigures == InitBill(TextsOf(FigureSegs))

InitOverlap == InitBill(TextsOf(OverlapSegs) \cup OverlapTexts)

\* Normalize that hands over without deriving the two views
Normalize_Lazy ==
    /\ mode = "bill" /\ pc = "start"
    /\ pc' = "normalized"
    /\ UNCHANGED <<mode, pdfText, rawText, flatText, header, totals, itemsBlock,
                   itemRows, items, expBlock, expRows, expenses, result, arg, ret>>

\* lines 10-12
Normalize ==
    /\ mode = "bill" /\ pc = "start"
    /\ rawText' = RawView(pdfText)
    /\ flatText' = FlatView(RawView(pdfText))
    /\ pc' = "normalized"
    /\ UNCHANGED <<mode, pdfText, header, totals, itemsBlock, itemRows, items,
                   expBlock, expRows, expenses, result, arg, ret>>

\* lines 44-58
ExtractHeader ==
    /\ mode = "bill" /\ pc = "normalized"
    /\ header' = Some(HeaderOf(rawText, flatText))
    /\ pc' = "header"
    /\ UNCHANGED <<mode, pdfText, rawText, flatText, totals, itemsBlock, itemRows,
                   items, expBlock, expRows, expenses, result, arg, ret>>

\* line 61
ParseTotals ==
    /\ mode = "bill" /\ pc = "header"
    /\ totals' = Some(parseVendorBillTotals(rawText))
    /\ pc' = "totals"
    /\ UNCHANGED <<mode, pdfText, rawText, flatText, header, itemsBlock, itemRows,
                   items, expBlock, expRows, expenses, result, arg, ret>>

\* lines 90-121
ItemsTable ==
    /\ mode = "bill" /\ pc = "totals"
    /\ itemsBlock' = itemsBlockMatch(rawText)
    /\ itemRows' = IF itemsBlock' = Null THEN <<>> ELSE RowsOf(Val(itemsBlock'))
    /\ items' = ItemLines(itemRows')
    /\ pc' = "items"
    /\ UNCHANGED <<mode, pdfText, rawText, flatText, header, totals, expBlock,
                   expRows, expenses, result, arg, ret>>

\* lines 125-154
ExpensesTable ==
    /\ mode = "bill" /\ pc = "items"
    /\ expBlock' = expBlockMatch(rawText)
    /\ expRows' = IF expBlock' = Null THEN <<>> ELSE RowsOf(Val(expBlock'))
    /\ expenses' = ExpenseLines(expRows')
    /\ pc' = "expenses"
    /\ UNCHANGED <<mode, pdfText, rawText, flatText, header, totals, itemsBlock,
                   itemRows, items, result, arg, ret>>

\* lines 159-167
FallbackFill ==
    /\ mode = "bill" /\ pc = "expenses"
    /\ expenses' = FillFromTotals(items, expenses, Val(totals))
    /\ pc' = "filled"
    /\ UNCHANGED <<mode, pdfText, rawText, flatText, header, totals, itemsBlock,
                   itemRows, items, expBlock, expRows, result, arg, ret>>

\* lines 170-177
FallbackSynthesize ==
    /\ mode = "bill" /\ pc = "filled"
    /\ expenses' = SynthesizeFromTotals(items, expenses, Val(totals))
    /\ pc' = "lines"
    /\ UNCHANGED <<mode, pdfText, rawText, flatText, header, totals, itemsBlock,
                   itemRows, items, expBlock, expRows, result, arg, ret>>

\* lines 66-81 and 14-15
Return ==
    /\ mode = "bill" /\ pc = "lines"
    /\ result' = Some([transactionType |-> "vendorbill",
                       header |-> Val(header),
                       lines |-> [items |-> items, expenses |-> expenses],
                       totals |-> Val(totals)])
    /\ pc' = "done"
    /\ UNCHANGED <<mode, pdfText, rawText, flatText, header, totals, itemsBlock,
                   itemRows, items, expBlock, expRows, expenses, arg, ret>>

Next ==
    \/ Normalize
    \/ ExtractHeader
    \/ ParseTotals
    \/ ItemsTable
    \/ ExpensesTable
    \/ FallbackFill
    \/ FallbackSynthesize
    \/ Return

Spec == Init /\ [][Next]_vars

SpecHeader == InitHeader /\ [][Next]_vars

SpecFigures == InitFigures /\ [][Next]_vars

SpecOverlap == InitOverlap /\ [][Next]_vars

-----------------------------------------------------------------------------
(* The utilities called on their own                                       *)

InitDate ==
    /\ mode = "date" /\ pc = "call"
    /\ pdfText = ""
    /\ arg \in {Null} \cup {Some(d) : d \in DateArgs}
    /\ Idle

\* normalizeDate(d), lines 201-207
CallNormalizeDate ==
    /\ mode = "date" /\ pc = "call"
    /\ ret' = normalizeDate(arg)
    /\ pc' = "returned"
    /\ UNCHANGED <<mode, pdfText, rawText, flatText, header, totals, itemsBlock,
                   itemRows, items, expBlock, expRows, expenses, result, arg>>

NextDate == CallNormalizeDate

SpecDate == InitDate /\ [][NextDate]_vars

InitPhp ==
    /\ mode = "php" /\ pc = "call"
    /\ pdfText = ""
    /\ arg \in {Null} \cup {Some(a) : a \in AmountArgs}
    /\ Idle

\* parsePhp(numStr), lines 195-199
CallParsePhp ==
    /\ mode = "php" /\ pc = "call"
    /\ ret' = parsePhp(arg)
    /\ pc' = "returned"
    /\ UNCHANGED <<mode, pdfText, rawText, flatText, header, totals, itemsBlock,
                   itemRows, items, expBlock, expRows, expenses, result, arg>>

\* the expenses loop (lines 132-153) on a block of one row whose last token
\* is the argument: the amount group of the row pattern, then parsePhp
ParseAmountRow ==
    /\ mode = "php" /\ pc = "returned" /\ arg # Null
    /\ expBlock' = Some("\nRepairs 0% PHP0.00 " \o Val(arg) \o "\n")
    /\ expRows' = RowsOf(Val(expBlock'))
    /\ expenses' = ExpenseLines(expRows')
    /\ pc' = "row"
    /\ UNCHANGED <<mode, pdfText, rawText, flatText, header, totals, itemsBlock,
                   itemRows, items, result, arg, ret>>

NextPhp == CallParsePhp \/ ParseAmountRow

SpecPhp == InitPhp /\ [][NextPhp]_vars

-----------------------------------------------------------------------------
(* Properties                                                              *)

\* parseVendorBillLines has finished
LinesDone == mode = "bill" /\ pc \in {"lines", "done"}

\* no item row and no expense row matched its pattern
NothingParsed ==
    /\ Len(items) = 0
    /\ \A k \in DOMAIN expRows : ExpenseRowMatch(expRows[k]) = Null

\* the line the second fallback creates: the sentinel name and no tax rate
\* (a parsed row always carries the rate its pattern captured)
IsSynthesized(line) == line.accountName = SentinelName /\ line.taxRatePercent = Null

\* C1 (as amended): after parseVendorBillLines the expenses hold a
\* synthesized line (sentinel accountName, taxRatePercent null) if and only
\* if no item row and no expense row was parsed and totals.amountTotal is
\* present, and never more than one such line.
C1_SynthesizedIffNothingParsed ==
    LinesDone =>
        LET S == {k \in DOMAIN expenses : IsSynthesized(expenses[k])}
        IN  /\ S # {} <=> (NothingParsed /\ Val(totals).amountTotal # Null)
            /\ Cardinality(S) <= 1

C1_Witness ==
    /\ LinesDone /\ NothingParsed /\ expRows # <<>>
    /\ Val(totals).amountTotal # Null
    /\ Len(expenses) = 1 /\ IsSynthesized(expenses[1])

\* C1 as stated: a line with accountName 'AUTO-GENERATED FROM TOTALS' is in
\* the expenses if and only if nothing was parsed and totals.amountTotal is
\* present, and there is at most one such line.
C1_Original ==
    LinesDone =>
        LET S == {k \in DOMAIN expenses : expenses[k].accountName = SentinelName}
        IN  /\ S # {} <=> (NothingParsed /\ Val(totals).amountTotal # Null)
            /\ Cardinality(S) <= 1

\* C2: the fallback step (both rules) leaves the items alone, removes no
\* expense line and changes no amount or taxAmount that was present before
\* the step.
C2_FallbackKeepsParsedFields ==
    [][(mode = "bill" /\ pc \in {"expenses", "filled"}) =>
          /\ items' = items
          /\ \A k \in DOMAIN expenses :
                /\ k \in DOMAIN expenses'
                /\ expenses[k].amount # Null => expenses'[k].amount = expenses[k].amount
                /\ expenses[k].taxAmount # Null =>
                       expenses'[k].taxAmount = expenses[k].taxAmount]_vars

\* the first rule has run on the only expense line, whose parsed amounts
\* differ from the totals
C2_Witness ==
    /\ mode = "bill" /\ pc = "filled"
    /\ Len(items) = 0 /\ Len(expenses) = 1
    /\ expenses[1].amount # Null /\ expenses[1].taxAmount # Null
    /\ Val(totals).amountTotal # Null /\ Val(totals).taxTotal # Null
    /\ Val(totals).amountTotal # expenses[1].amount
    /\ Val(totals).taxTotal # expenses[1].taxAmount

\* the header phrase of a table occurs in the text
HasHeader(s, words) == \E i \in 1..Len(s) : PhraseAt(s, i, words) # 0

\* the row holds no PHP amount
LacksAmount(row) == \A i \in 1..Len(row) : AmountAt(row, Lit(row, i, "PHP")) = 0

\* expenses header, no items header, one expense row (not a repeated header
\* line) without an amount, and a total amount
ScenarioB ==
    /\ HasHeader(rawText, ExpensesHeaderWords)
    /\ ~HasHeader(rawText, ItemsHeaderWords)
    /\ Len(expRows) = 1 /\ LacksAmount(expRows[1])
    /\ ~HasHeader(expRows[1], ExpensesHeaderWords)
    /\ Val(totals).amountTotal # Null

\* C3: in scenario B the record holds exactly one expense line, the parsed
\* row with its accountName from the row text, with the amount (and the
\* taxAmount, when a tax total is present) of the totals.
C3_ScenarioBKeepsRow ==
    (mode = "bill" /\ pc = "done" /\ ScenarioB) =>
        /\ Len(expenses) = 1
        /\ expenses[1].accountName = expRows[1]
        /\ expenses[1].amount = Val(totals).amountTotal
        /\ Val(totals).taxTotal # Null => expenses[1].taxAmount = Val(totals).taxTotal

\* C4 (as amended): when totals.amountTotal is present the record carries
\* at least one line.
C4_LineWhenAmountTotal ==
    (mode = "bill" /\ pc = "done") =>
        (Val(result).totals.amountTotal # Null =>
            Len(Val(result).lines.items) + Len(Val(result).lines.expenses) >= 1)

\* nothing was parsed and the only line is the one made from the totals
C4_Witness ==
    /\ mode = "bill" /\ pc = "done" /\ NothingParsed
    /\ Val(result).totals.amountTotal # Null
    /\ Val(result).totals.taxTotal = Null
    /\ Len(Val(result).lines.items) = 0 /\ Len(Val(result).lines.expenses) = 1

\* C4 as stated: when any total (taxTotal or amountTotal) is present the
\* record carries at least one line.
C4_Original ==
    (mode = "bill" /\ pc = "done") =>
        (Val(result).totals.amountTotal # Null \/ Val(result).totals.taxTotal # Null =>
            Len(Val(result).lines.items) + Len(Val(result).lines.expenses) >= 1)

\* the line ends in a value-shaped token: a digit (also the end of a PHP
\* amount) or a percent sign
EndsInValue(row) == IsDigit(At(row, Len(row))) \/ At(row, Len(row)) = "%"

\* a description line that continues the row before it: it follows a row
\* that ends in its figures, is no header line and does not end in a value
IsContinuation(rows, k) ==
    /\ k >= 2
    /\ EndsInValue(rows[k - 1])
    /\ ~EndsInValue(rows[k])
    /\ ~HasHeader(rows[k], ItemsHeaderWords)
    /\ ~HasHeader(rows[k], ExpensesHeaderWords)

\* C5: a continuation line is appended to the row before it before the row
\* pattern is applied, so none of the rows the pattern is applied to is a
\* continuation line standing on its own.
C5_ContinuationMerged ==
    (mode = "bill" /\ pc \in {"expenses", "filled", "lines", "done"}) =>
        /\ \A k \in DOMAIN itemRows : ~IsContinuation(itemRows, k)
        /\ \A k \in DOMAIN expRows : ~IsContinuation(expRows, k)

\* the text from the end of the first header to the first Tax PHP marker
\* after it, or to the end of the text when there is none
BlockAfterHeader(s, words) ==
    LET h == PhraseAt(s, Min({i \in 1..Len(s) : PhraseAt(s, i, words) # 0}), words)
        T == {j \in h..Len(s) : TaxPhpAt(s, j) # 0}
    IN  SubSeq(s, h, IF T = {} THEN Len(s) ELSE Min(T) - 1)

\* C9: for each table, when its header is present the block is the text
\* after the header up to the first following Tax PHP marker, or up to the
\* end of the text when none follows, and the rows of that block are
\* parsed; when the header is absent there is no block and no row.
C9_BlockOfEachTable ==
    (mode = "bill" /\ pc = "expenses") =>
        /\ IF HasHeader(rawText, ItemsHeaderWords)
           THEN /\ itemsBlock # Null =>
                       Val(itemsBlock) = BlockAfterHeader(rawText, ItemsHeaderWords)
                /\ items = ItemLines(RowsOf(BlockAfterHeader(rawText, ItemsHeaderWords)))
           ELSE itemsBlock = Null /\ itemRows = <<>> /\ items = <<>>
        /\ IF HasHeader(rawText, ExpensesHeaderWords)
           THEN /\ expBlock # Null =>
                       Val(expBlock) = BlockAfterHeader(rawText, ExpensesHeaderWords)
                /\ expenses =
                       ExpenseLines(RowsOf(BlockAfterHeader(rawText, ExpensesHeaderWords)))
           ELSE expBlock = Null /\ expRows = <<>> /\ expenses = <<>>

\* one of the three date separators
IsSeparator(c) == c \in {"/", "-", "."}

\* s is month, separator at i, day, separator at j, year: one or two digits,
\* one or two digits, four digits, and nothing else
DateShapeAt(s, i, j) ==
    /\ i \in 2..3 /\ j - i \in 2..3 /\ Len(s) = j + 4
    /\ IsSeparator(At(s, i)) /\ IsSeparator(At(s, j))
    /\ AllDigits(SubSeq(s, 1, i - 1))
    /\ AllDigits(SubSeq(s, i + 1, j - 1))
    /\ AllDigits(SubSeq(s, j + 1, Len(s)))

\* the accepted shape: each separator is any one of the three
AcceptedDate(s) == \E i, j \in 1..Len(s) : DateShapeAt(s, i, j)

\* M/D/YYYY, M-D-YYYY or M.D.YYYY: the same separator twice
SameSeparatorDate(s) ==
    \E i, j \in 1..Len(s) : DateShapeAt(s, i, j) /\ At(s, i) = At(s, j)

\* r is YYYY-MM-DD, zero padded, and denotes the date s denotes
IsoOf(s, r) ==
    \E i, j \in 1..Len(s) :
        /\ DateShapeAt(s, i, j)
        /\ Len(r) = 10 /\ At(r, 5) = "-" /\ At(r, 8) = "-"
        /\ AllDigits(SubSeq(r, 1, 4)) /\ AllDigits(SubSeq(r, 6, 7))
        /\ AllDigits(SubSeq(r, 9, 10))
        /\ StrToNat(SubSeq(r, 1, 4)) = StrToNat(SubSeq(s, j + 1, Len(s)))
        /\ StrToNat(SubSeq(r, 6, 7)) = StrToNat(SubSeq(s, 1, i - 1))
        /\ StrToNat(SubSeq(r, 9, 10)) = StrToNat(SubSeq(s, i + 1, j - 1))

\* C6: normalizeDate turns every string of the accepted shape (month and day
\* of one or two digits, year of four, each separator any of / - .) into
\* YYYY-MM-DD with zero-padded month and day denoting the same date; the
\* empty string gives null; every other string is returned unchanged.
C6_NormalizeDate ==
    (mode = "date" /\ pc = "returned" /\ arg # Null) =>
        IF AcceptedDate(Val(arg)) THEN ret # Null /\ IsoOf(Val(arg), Val(ret))
        ELSE IF Val(arg) = "" THEN ret = Null
        ELSE ret = arg

\* a date with two different separators was normalised
C6_Witness ==
    /\ mode = "date" /\ pc = "returned"
    /\ arg = Some("1/7-2024") /\ ret = Some("2024-01-07")

\* C6 as stated: only the three same-separator shapes are normalised, and
\* every other string, the empty string included, is returned unchanged.
C6_Original ==
    (mode = "date" /\ pc = "returned" /\ arg # Null) =>
        IF SameSeparatorDate(Val(arg)) THEN ret # Null /\ IsoOf(Val(arg), Val(ret))
        ELSE ret = arg
RECURSIVE Pow10(_)
Pow10(n) == IF n = 0 THEN 1 ELSE 10 * Pow10(n - 1)

\* the number the digits of s spell, whatever stands between them
RECURSIVE DigitsValue(_)
DigitsValue(s) ==
    IF s = "" THEN 0
    ELSE IF IsDigit(At(s, Len(s)))
    THEN 10 * DigitsValue(SubSeq(s, 1, Len(s) - 1)) + DigitVal(At(s, Len(s)))
    ELSE DigitsValue(SubSeq(s, 1, Len(s) - 1))

\* the number of characters after the decimal point of g, 0 without a point
FracLen(g) ==
    LET D == {k \in 1..Len(g) : At(g, k) = "."}
    IN  IF D = {} THEN 0 ELSE Len(g) - Max(D)

\* the number v equals the decimal value g spells once its commas are gone
DecimalValueIs(g, v) ==
    /\ v.kind = "num"
    /\ v.m * Pow10(FracLen(g)) = DigitsValue(g) * Pow10(v.e)

\* digits and commas (at least one), a point, digits (at least one)
GroupForm(g) ==
    \E k \in 2..(Len(g) - 1) :
        /\ At(g, k) = "."
        /\ \A i \in 1..(k - 1) : IsDigit(At(g, i)) \/ At(g, i) = ","
        /\ \A i \in (k + 1)..Len(g) : IsDigit(At(g, i))

\* PHP followed by such a group
TokenForm(t) == Len(t) > 3 /\ SubSeq(t, 1, 3) = "PHP" /\ GroupForm(SubSeq(t, 4, Len(t)))

\* PHP, digits with commas between them, a point, exactly two digits
StrictTokenForm(t) ==
    /\ TokenForm(t)
    /\ At(t, Len(t) - 2) = "."
    /\ IsDigit(At(t, 4))

\* the row built around the argument gave one expense line whose amount is
\* the decimal value of the token t
AmountParsedAs(t) ==
    /\ Len(expenses) = 1
    /\ expenses[1].amount # Null
    /\ DecimalValueIs(SubSeq(t, 4, Len(t)), Val(expenses[1].amount))

TokenStarts(row) ==
    {i \in 1..Len(row) : ~IsSpace(At(row, i)) /\ (i = 1 \/ IsSpace(At(row, i - 1)))}

\* the token that starts at p
TokenAt(row, p) ==
    SubSeq(row, p, Min({j \in (p + 1)..(Len(row) + 1) :
                            j > Len(row) \/ IsSpace(At(row, j))}) - 1)

\* the start of the n-th token from the end of the row
NthFromLast(row, n) ==
    CHOOSE p \in TokenStarts(row) : Cardinality({q \in TokenStarts(row) : q >= p}) = n

\* digits followed by a percent sign
PctToken(t) == Len(t) >= 2 /\ At(t, Len(t)) = "%" /\ AllDigits(SubSeq(t, 1, Len(t) - 1))

\* digits, optionally a point and more digits
QtyToken(t) ==
    /\ t # ""
    /\ \/ AllDigits(t)
       \/ \E k \in 2..(Len(t) - 1) :
              /\ At(t, k) = "."
              /\ AllDigits(SubSeq(t, 1, k - 1))
              /\ AllDigits(SubSeq(t, k + 1, Len(t)))

\* what stands before the n last tokens of the row
NameBefore(row, n) == Trim(SubSeq(row, 1, NthFromLast(row, n) - 1))

\* the full expense row: accountName, rate%, two PHP amounts
ExpenseShape(row) ==
    /\ Cardinality(TokenStarts(row)) >= 4
    /\ PctToken(TokenAt(row, NthFromLast(row, 3)))
    /\ TokenForm(TokenAt(row, NthFromLast(row, 2)))
    /\ TokenForm(TokenAt(row, NthFromLast(row, 1)))

\* the full item row: name, quantity, rate%, three PHP amounts
ItemShape(row) ==
    /\ Cardinality(TokenStarts(row)) >= 6
    /\ QtyToken(TokenAt(row, NthFromLast(row, 5)))
    /\ PctToken(TokenAt(row, NthFromLast(row, 4)))
    /\ TokenForm(TokenAt(row, NthFromLast(row, 3)))
    /\ TokenForm(TokenAt(row, NthFromLast(row, 2)))
    /\ TokenForm(TokenAt(row, NthFromLast(row, 1)))

\* the optional number o is the value of token n from the end of the row
FieldIs(o, row, n) == o # Null /\ DecimalValueIs(TokenAt(row, NthFromLast(row, n)), Val(o))

\* the line carries exactly the fields of the row, cut at its token boundaries
ExpenseFromRow(line, row) ==
    /\ line.accountName = NameBefore(row, 3)
    /\ FieldIs(line.taxRatePercent, row, 3)
    /\ FieldIs(line.taxAmount, row, 2)
    /\ FieldIs(line.amount, row, 1)

ItemFromRow(line, row) ==
    /\ line.itemName = NameBefore(row, 5)
    /\ FieldIs(line.quantity, row, 5)
    /\ FieldIs(line.taxRatePercent, row, 4)
    /\ FieldIs(line.taxAmount, row, 3)
    /\ FieldIs(line.rate, row, 2)
    /\ FieldIs(line.amount, row, 1)

IsParsed(line) == ~IsSynthesized(line)

\* C8: the item lines are, in order, the rows of the items block that have
\* the full item shape, and the expense lines other than the synthesized
\* one are, in order, the rows of the expenses block that have the full
\* expense shape, each line carrying the fields of its row cut at the row's
\* token boundaries; a row without the shape contributes no line.
C8_StrictRowMatching ==
    (mode = "bill" /\ pc \in {"expenses", "filled", "lines", "done"}) =>
        LET si == SelectSeq(itemRows, ItemShape)
            se == SelectSeq(expRows, ExpenseShape)
            pe == SelectSeq(expenses, IsParsed)
        IN  /\ Len(items) = Len(si)
            /\ \A k \in DOMAIN items : ItemFromRow(items[k], si[k])
            /\ Len(pe) = Len(se)
            /\ \A k \in DOMAIN pe : ExpenseFromRow(pe[k], se[k])

\* of two rows under the expenses header, the one with the shape became the
\* only line and the other was skipped
C8_Witness ==
    /\ mode = "bill" /\ pc = "done"
    /\ Len(expRows) = 2
    /\ ExpenseShape(expRows[1]) /\ ~ExpenseShape(expRows[2])
    /\ Len(expenses) = 1
    /\ expenses[1].accountName = "Repairs"
    /\ expenses[1].amount = Some([kind |-> "num", m |-> 5000, e |-> 0])
\* an optional string that is not the empty string
NullOrNonEmpty(o) == o = Null \/ (Len(o) = 1 /\ Val(o) # "")

HeaderFieldsWellFormed(h) ==
    /\ NullOrNonEmpty(h.docNumber)
    /\ NullOrNonEmpty(h.billDate)
    /\ NullOrNonEmpty(h.dueDate)
    /\ NullOrNonEmpty(h.vendorName)
    /\ NullOrNonEmpty(h.subsidiaryName)
    /\ NullOrNonEmpty(h.termsName)

\* what the bill date patterns and the due date pattern captured
BillDateCaptured ==
    IF LabelDate(flatText, "Bill") # Null THEN Capture(flatText, LabelDate(flatText, "Bill"))
    ELSE Capture(flatText, BillDate2(flatText))

DueDateCaptured == Capture(flatText, LabelDate(flatText, "Due"))

\* a captured date that cannot be normalised is carried as captured
CarriedVerbatim(captured, field) ==
    (captured # Null /\ ~AcceptedDate(Val(captured))) => field = captured

\* C10: each header field of the record is null or a non-empty string, and
\* a date a pattern captured that normalizeDate cannot normalise is carried
\* in the header as captured, not as null.
C10_HeaderFields ==
    /\ (mode = "bill" /\ header # Null) =>
           /\ HeaderFieldsWellFormed(Val(header))
           /\ CarriedVerbatim(BillDateCaptured, Val(header).billDate)
           /\ CarriedVerbatim(DueDateCaptured, Val(header).dueDate)
    /\ (mode = "bill" /\ pc = "done") =>
           /\ HeaderFieldsWellFormed(Val(result).header)
           /\ CarriedVerbatim(BillDateCaptured, Val(result).header.billDate)
           /\ CarriedVerbatim(DueDateCaptured, Val(result).header.dueDate)

\* the vendor pattern captured only white space and the field is null, and
\* a bill date already in ISO form is carried as captured
C10_Witness ==
    /\ mode = "bill" /\ pc = "done"
    /\ Capture(rawText, Vendor(rawText)) = Some("")
    /\ Val(result).header.vendorName = Null
    /\ BillDateCaptured = Some("2025-03-27")
    /\ Val(result).header.billDate = Some("2025-03-27")
\* an optional number that is absent or finite
NullOrFinite(o) == o = Null \/ Val(o).kind = "num"

\* the text t spells a zero: it has a digit and none other than 0
ZeroNumeral(t) ==
    /\ \E i \in 1..Len(t) : At(t, i) = "0"
    /\ \A i \in 1..Len(t) : IsDigit(At(t, i)) => At(t, i) = "0"

\* the field is the number 0 only if token n from the end of the row is a zero
ZeroOnlyFrom(o, row, n) ==
    o = Some(Zero) => ZeroNumeral(TokenAt(row, NthFromLast(row, n)))

\* a total is the number 0 only if the text holds a zero token
ZeroTotalOnlyFrom(o, text) ==
    o = Some(Zero) => \E p \in TokenStarts(text) : ZeroNumeral(TokenAt(text, p))

ItemFiguresFinite(line) ==
    /\ NullOrFinite(line.quantity) /\ NullOrFinite(line.taxRatePercent)
    /\ NullOrFinite(line.taxAmount) /\ NullOrFinite(line.rate)
    /\ NullOrFinite(line.amount)

ExpenseFiguresFinite(line) ==
    /\ NullOrFinite(line.taxRatePercent) /\ NullOrFinite(line.taxAmount)
    /\ NullOrFinite(line.amount)

\* C11: every numeric field of every emitted line and of the totals is
\* absent or a finite number, and it is the number 0 only where the text
\* holds a literal zero for it.
C11_NumericAbsentOrFinite ==
    (mode = "bill" /\ pc \in {"expenses", "filled", "lines", "done"}) =>
        LET si == SelectSeq(itemRows, ItemShape)
            se == SelectSeq(expRows, ExpenseShape)
        IN  /\ \A k \in DOMAIN items : ItemFiguresFinite(items[k])
            /\ \A k \in DOMAIN expenses : ExpenseFiguresFinite(expenses[k])
            /\ NullOrFinite(Val(totals).taxTotal)
            /\ NullOrFinite(Val(totals).amountTotal)
            /\ ZeroTotalOnlyFrom(Val(totals).taxTotal, rawText)
            /\ ZeroTotalOnlyFrom(Val(totals).amountTotal, rawText)
            /\ \A k \in DOMAIN items :
                   /\ ZeroOnlyFrom(items[k].quantity, si[k], 5)
                   /\ ZeroOnlyFrom(items[k].taxRatePercent, si[k], 4)
                   /\ ZeroOnlyFrom(items[k].taxAmount, si[k], 3)
                   /\ ZeroOnlyFrom(items[k].rate, si[k], 2)
                   /\ ZeroOnlyFrom(items[k].amount, si[k], 1)
            /\ pc = "expenses" =>
                   \A k \in DOMAIN expenses :
                       /\ ZeroOnlyFrom(expenses[k].taxRatePercent, se[k], 3)
                       /\ ZeroOnlyFrom(expenses[k].taxAmount, se[k], 2)
                       /\ ZeroOnlyFrom(expenses[k].amount, se[k], 1)
\* an optional number that, where present, is zero or more
NonNegative(o) ==
    o = Null \/ Val(o).kind = "inf" \/ (Val(o).kind = "num" /\ Val(o).m >= 0)

\* an optional number that, where present, is at most one hundred
AtMost100(o) ==
    o = Null \/ (Val(o).kind = "num" /\ Val(o).m <= 100 * Pow10(Val(o).e))

\* C12: every item line the row parser emits has a quantity of zero or
\* more, a tax rate between 0 and 100, and a tax amount, a rate and an
\* amount of zero or more.
C12_ItemFigureRanges ==
    (mode = "bill" /\ pc \in {"items", "expenses", "filled", "lines", "done"}) =>
        \A k \in DOMAIN items :
            /\ NonNegative(items[k].quantity)
            /\ NonNegative(items[k].taxRatePercent)
            /\ AtMost100(items[k].taxRatePercent)
            /\ NonNegative(items[k].taxAmount)
            /\ NonNegative(items[k].rate)
            /\ NonNegative(items[k].amount)
\* the fallback step of lines 156-177 as one function of the expense lines
Reconcile(its, exps, tot) == SynthesizeFromTotals(its, FillFromTotals(its, exps, tot), tot)

\* the precondition of the first rule: no item and exactly one expense row
\* were parsed
OneExpenseRowParsed ==
    Len(items) = 0 /\ Len(SelectSeq(expRows, ExpenseShape)) = 1

\* C13: applied to its own output with the same totals, the fallback step
\* changes nothing and adds no line; and where no item and exactly one
\* expense row were parsed, the second rule has not fired: that row's line
\* is the only expense line and no line is synthesized.
C13_FallbackIdempotentExclusive ==
    (mode = "bill" /\ pc \in {"lines", "done"}) =>
        /\ Reconcile(items, expenses, Val(totals)) = expenses
        /\ OneExpenseRowParsed =>
               /\ Len(expenses) = 1
               /\ ~IsSynthesized(expenses[1])
               /\ expenses[1].accountName =
                      NameBefore(SelectSeq(expRows, ExpenseShape)[1], 3)

\* the first rule filled the amount of the only parsed expense line from
\* the totals (the row's own amount is too large for a number)
C13_Witness ==
    /\ mode = "bill" /\ pc = "done"
    /\ OneExpenseRowParsed
    /\ expRows = <<HugeAmountRowLine>>
    /\ Len(expenses) = 1
    /\ expenses[1].accountName = "Repairs"
    /\ expenses[1].amount = Some([kind |-> "num", m |-> 1000, e |-> 0])
    /\ expenses[1].amount = Val(totals).amountTotal
\* both views have been derived from the text
ViewsDerived == rawText = RawView(pdfText) /\ flatText = FlatView(RawView(pdfText))

\* the totals have been computed from the raw view
TotalsComputed == totals # Null /\ Val(totals) = parseVendorBillTotals(rawText)

\* C14: every step of header or table extraction starts with both text
\* views derived, and every step of the fallback rules starts with the
\* totals computed.
C14_StageOrdering ==
    [][/\ (mode = "bill" /\ pc' \in {"header", "totals", "items", "expenses"}) =>
              ViewsDerived
       /\ (mode = "bill" /\ pc' \in {"filled", "lines"}) =>
              ViewsDerived /\ TotalsComputed]_vars

\* the views differ from the text and from each other, and the second rule
\* has built its line from the totals
C14_Witness ==
    /\ mode = "bill" /\ pc = "lines"
    /\ rawText # pdfText /\ flatText # rawText
    /\ Val(totals).amountTotal = Some([kind |-> "num", m |-> 1000, e |-> 0])
    /\ Len(expenses) = 1
    /\ IsSynthesized(expenses[1])
    /\ expenses[1].amount = Val(totals).amountTotal
\* the row is emitted as an item line / as an expense line
EmittedAsItem(row) ==
    (\E i \in DOMAIN itemRows : itemRows[i] = row) /\ ItemRowMatch(row) # Null

EmittedAsExpense(row) ==
    (\E j \in DOMAIN expRows : expRows[j] = row) /\ ExpenseRowMatch(row) # Null

AllRows == {itemRows[i] : i \in DOMAIN itemRows} \cup {expRows[j] : j \in DOMAIN expRows}

\* C15: no row is emitted both as an item line and as an expense line, also
\* where it lies in both blocks: no row matches both row patterns, and the
\* numbers of lines are the numbers of rows of each kind.
C15_NoRowInBothTables ==
    (mode = "bill" /\ pc = "expenses") =>
        /\ \A row \in AllRows :
               /\ ~(ItemRowMatch(row) # Null /\ ExpenseRowMatch(row) # Null)
               /\ ~(ItemShape(row) /\ ExpenseShape(row))
               /\ ~(EmittedAsItem(row) /\ EmittedAsExpense(row))
        /\ Len(items) = Len(SelectSeq(itemRows, ItemShape))
        /\ Len(expenses) = Len(SelectSeq(expRows, ExpenseShape))

\* an item row and an expense row lie in both blocks; each gave one line,
\* in its own table only
C15_Witness ==
    /\ mode = "bill" /\ pc = "expenses"
    /\ \E i \in DOMAIN itemRows : itemRows[i] = ItemRowLine
    /\ \E i \in DOMAIN itemRows : itemRows[i] = ExpenseRowLine
    /\ expRows = <<ItemRowLine, ExpenseRowLine>>
    /\ Len(items) = 1 /\ items[1].itemName = "WIDGET-1"
    /\ Len(expenses) = 1 /\ expenses[1].accountName = "Repairs"
=============================================================================
